---- MODULE Spec2Model ----
(***************************************************************************)
(* Training sink of the anomaly-detection UDF (udsink/train.py) and the    *)
(* Prometheus connector it fetches through (connectors/prometheus.py).     *)
(*                                                                         *)
(* Several orchestrator processes each execute Train.run over a batch of   *)
(* datums.  They share one Redis instance, which holds the dedup markers   *)
(* written by Train._is_new_request and the artifacts written by           *)
(* RedisRegistry.save.  Every Redis command is one step; the code between  *)
(* two commands is local to the process that runs it.                      *)
(*                                                                         *)
(* Prometheus.query_range, PrometheusDataFetcher.clean_data and the key    *)
(* of Train._is_new_request are modelled on their own: SpecPage follows    *)
(* one paginated range query call by call, SpecClean applies clean_data    *)
(* to a frame and to its own output, SpecIdent calls _is_new_request for   *)
(* one identity after another.                                             *)
(***************************************************************************)
EXTENDS Integers, Sequences, FiniteSets, TLC

\* ------------------------------------------------------------------ bounds
NumInstances == 2   \* orchestrator processes sharing the marker store
MaxDatums    == 2   \* datums delivered to all runs together
MaxRows      == 1   \* rows of a fetched frame: 0..MaxRows
MaxMinTrain  == 2   \* configured min_train_size: 0..MaxMinTrain
TickSecs     == 150 \* seconds that pass in one Tick
MaxChunks    == 2   \* full chunks of max_points points in a queried range: 0..MaxChunks
MaxFrameRows == 3   \* rows of a frame to clean: 0..MaxFrameRows
MaxTime      == 2   \* timestamps of its rows: 1..MaxTime
MaxLimit     == 2   \* limit of clean_data: 1..MaxLimit
MaxKeys      == 2   \* length of composite_keys of an identity: 1..MaxKeys
MaxRequests  == 2   \* calls of _is_new_request inside one window

\* ------------------------------------------------------- program constants
REQUEST_EXPIRY == 300

\* ----------------------------------------------------------------- values
Instances == 1..NumInstances
None      == "None"
Absent    == "absent"         \* a configuration lookup that finds nothing

\* TrainerPayload: the identity (composite_keys, metric) of a request.
Payloads ==
    { [composite_keys |-> <<"cfgA", "ns1", "host1">>, metric |-> "cpu"],
      [composite_keys |-> <<"cfgB", "ns2">>,          metric |-> "mem"] }

NoPayload == [composite_keys |-> <<>>, metric |-> ""]

\* _datum.value: the serialized fields of a TrainerPayload, or bytes that
\* TrainerPayload(**orjson.loads(...)) cannot be built from.
Malformed == [decodable |-> FALSE, payload |-> NoPayload]
DatumValues == {[decodable |-> TRUE, payload |-> p] : p \in Payloads} \cup {Malformed}

NoDatum == [id |-> <<0, 0>>, value |-> Malformed]

\* One call to a collaborator, as the call log keeps it.
Call(op, arg, res, rows, sk) ==
    [op |-> op, arg |-> arg, res |-> res, rows |-> rows, skeys |-> sk]

\* The artifact roles, in the order _train_and_save saves them.
Roles == <<"model", "preprocess", "threshold">>
RoleSet == {Roles[n] : n \in 1..Len(Roles)}

\* ":".join(items)
RECURSIVE join(_, _)
join(sep, items) ==
    IF items = <<>> THEN ""
    ELSE IF Len(items) = 1 THEN items[1]
    ELSE items[1] \o sep \o join(sep, Tail(items))

\* _ckeys and r_key of _is_new_request
r_key(payload) ==
    "train::" \o join(":", payload.composite_keys \o <<payload.metric>>)

\* skeys without the metric.
skeys_NoMetric(payload) == payload.composite_keys

\* skeys of _train_and_save
skeys(payload) == payload.composite_keys \o <<payload.metric>>

MarkerKeys == {r_key(p) : p \in Payloads}

\* ---------------------------------------------------------- data fetching
DataSources == {"prometheus", "druid", "other"}

\* What a fetch finds around it: the stream configuration of composite_keys[0]
\* (Absent, or its source), whether the backend's own configuration is
\* available, and what the backend's fetcher gives (a frame of some rows, or an exception).
Frame(n) == [raised |-> FALSE, rows |-> n]
Raised   == [raised |-> TRUE, rows |-> 0]

FetchEnvs ==
    [ds_config : DataSources \cup {Absent},
     backend_conf : BOOLEAN,
     backend : {Frame(n) : n \in 0..MaxRows} \cup {Raised}]

fetch_prometheus_data(env) ==
    IF ~env.backend_conf THEN Frame(0) ELSE env.backend

fetch_druid_data(env) ==
    IF ~env.backend_conf THEN Frame(0) ELSE env.backend

\* Train.fetch_data: the returned frame (its row count), or the exception.
fetch_data(env) ==
    IF env.ds_config = Absent THEN Raised
    ELSE IF env.ds_config = "prometheus" THEN fetch_prometheus_data(env)
    ELSE IF env.ds_config = "druid" THEN fetch_druid_data(env)
    ELSE Frame(0)

\* ------------------------------------------------ range query pagination
\* The points a range query may span: the literal 11000 of query_range and
\* query_range_limit.
max_points == 11000

\* step: int = 30, the default of query_range_limit's parameter
default_step == 30

NoQuery == [start |-> 0, end |-> 0, step |-> 1]

\* The arguments query_range is called with: start <= end, step > 0, the
\* range a few points around a whole number of full chunks, on or off the
\* step grid.
Starts == {0, 7}
Steps == {15, 30, 60}
PointCounts ==
    {n \in UNION {{c * max_points - 1, c * max_points, c * max_points + 1} :
                    c \in 0..MaxChunks} : n >= 0}
Queries ==
    UNION {{[start |-> s, end |-> s + n * st + r, step |-> st] :
                n \in PointCounts, r \in {0, st \div 2}} :
            s \in Starts, st \in Steps}

\* data_points > n, for data_points = (end - start) / step
data_points_gt(start, end, step, n) == (end - start) > n * step

\* One series of the backend's answer to a range query: the samples at
\* start, start + step, ... up to end, both bounds included.
Series(start, end, step) == [start |-> start, end |-> end, step |-> step]

\* What the backend does to a call: "ok", it answers with the list of
\* series; "error", requests.get or response.json()["data"]["result"]
\* raises (network error, a payload that is not JSON or lacks the keys);
\* "null", it answers with a payload whose data.result is null.
BackendOutcomes == {"ok", "error", "null"}

\* query_range_limit: what became of the call, the value it returns and
\* whether that value is a list.  An exception inside the try is caught and
\* results returned as it is by then: [] when the exception came before the
\* assignment, None when it came from len(results) on a null result.
query_range_limit(start, end, step, backend) ==
    IF data_points_gt(start, end, step, max_points)
    THEN [outcome |-> "rejected", results |-> <<>>, is_list |-> TRUE]
    ELSE IF backend = "ok"
    THEN [outcome |-> "ok", results |-> <<Series(start, end, step)>>, is_list |-> TRUE]
    ELSE IF backend = "error"
    THEN [outcome |-> "error", results |-> <<>>, is_list |-> TRUE]
    ELSE [outcome |-> "null", results |-> <<>>, is_list |-> FALSE]

\* One call of query_range_limit, as the log of requests keeps it.
Request(start, end, step, outcome) ==
    [start |-> start, end |-> end, step |-> step, outcome |-> outcome]

\* ------------------------------------------------------------ data cleaning
\* The columns of a frame that query_metric builds: "timestamp", the metric's
\* column and the label columns asked for; reset_index adds "index".
TimestampCol == "timestamp"
ValueCol     == "value"
HashCol      == "rollouts_pod_template_hash"
IndexCol     == "index"

NaN == "NaN"
Inf == "inf"

\* A frame: what its index is (the default RangeIndex, or the timestamps),
\* its columns, and its rows.  A row holds its RangeIndex label and one cell
\* per column; the cell of a column that the frame does not have is 0 or "".
Row(label, ts, v, h, ix) ==
    [label |-> label, timestamp |-> ts, value |-> v, hash |-> h, index |-> ix]

\* pd.DataFrame()
NoFrame == [index |-> "range", columns |-> {}, rows |-> <<>>]

\* What a call of clean_data ends with: the frame it returns, or KeyError.
Returns(frame) == [raised |-> FALSE, frame |-> frame]
KeyError == [raised |-> TRUE, frame |-> NoFrame]
NoOutcome == Returns(NoFrame)

\* The frames query_metric hands over: sorted by timestamp, RangeIndex,
\* with or without the rollout-identity label column; pd.DataFrame() when
\* the query had no result.
Times == 1..MaxTime
Cells == {"1.0", NaN, Inf}
Revisions == {"revA", "revB"}
FrameColumns == {{}, {TimestampCol, ValueCol}, {TimestampCol, ValueCol, HashCol}}
LabelLists == {{}, {HashCol}}
Limits == 1..MaxLimit

RECURSIVE Reverse(_)
Reverse(seq) == IF seq = <<>> THEN <<>> ELSE Append(Reverse(Tail(seq)), Head(seq))

\* fillna(method="ffill", limit=lim) on one column: each missing cell takes
\* the last valid cell before it, for the first lim cells of a gap.
RECURSIVE Fill(_, _, _, _)
Fill(cells, last, run, lim) ==
    IF cells = <<>> THEN <<>>
    ELSE LET c == Head(cells) IN
         IF c # NaN THEN <<c>> \o Fill(Tail(cells), c, 0, lim)
         ELSE IF last # NaN /\ run < lim
         THEN <<last>> \o Fill(Tail(cells), last, run + 1, lim)
         ELSE <<NaN>> \o Fill(Tail(cells), last, run + 1, lim)
ffill(cells, lim) == Fill(cells, NaN, 0, lim)
bfill(cells, lim) == Reverse(ffill(Reverse(cells), lim))

\* df.replace([np.inf, -np.inf], np.nan)
replace_inf(rows) ==
    [k \in 1..Len(rows) |->
        IF rows[k].value = Inf THEN [rows[k] EXCEPT !.value = NaN] ELSE rows[k]]

\* df.fillna(method="ffill", limit).fillna(method="bfill", limit), column by column
fillna(rows, lim) ==
    LET N == 1..Len(rows)
        v == bfill(ffill([k \in N |-> rows[k].value], lim), lim)
        h == bfill(ffill([k \in N |-> rows[k].hash], lim), lim)
    IN [k \in N |-> [rows[k] EXCEPT !.value = v[k], !.hash = h[k]]]

HasNaN(row) == row.value = NaN \/ row.hash = NaN

\* if df.columns[df.isna().any()].tolist(): df.dropna(inplace=True)
dropna(rows) == SelectSeq(rows, LAMBDA r : ~HasNaN(r))

\* df.reset_index(): the index becomes a column, named after the index or
\* "index" (or "level_0" when there is an "index" already), and the rows
\* are labelled anew.
reset_index(f) ==
    IF f.index = "timestamp"
    THEN [index |-> "range", columns |-> f.columns \cup {TimestampCol},
          rows |-> [k \in 1..Len(f.rows) |-> [f.rows[k] EXCEPT !.label = k - 1]]]
    ELSE IF IndexCol \in f.columns
    THEN [f EXCEPT !.columns = @ \cup {"level_0"},
                   !.rows = [k \in 1..Len(f.rows) |-> [f.rows[k] EXCEPT !.label = k - 1]]]
    ELSE [f EXCEPT !.columns = @ \cup {IndexCol},
                   !.rows = [k \in 1..Len(f.rows) |->
                                [f.rows[k] EXCEPT !.index = f.rows[k].label, !.label = k - 1]]]

\* df.duplicated("timestamp", keep=False) of row k
duplicated(rows, k) ==
    \E j \in 1..Len(rows) : j # k /\ rows[j].timestamp = rows[k].timestamp

\* pd.merge(df, df[duplicated], indicator=True, how="outer")
\*   .query('_merge=="left_only"'): the rows that equal no duplicated row
\* in the columns the two frames share, which are all their columns.
left_only(rows) ==
    LET N == 1..Len(rows)
        dup == {[rows[k] EXCEPT !.label = 0] : k \in {j \in N : duplicated(rows, j)}}
        keep == SelectSeq([k \in N |-> [rows[k] EXCEPT !.label = 0]],
                          LAMBDA r : r \notin dup)
    IN [k \in 1..Len(keep) |-> [keep[k] EXCEPT !.label = k - 1]]

\* df.sort_values(by=["timestamp"], ascending=True)
RECURSIVE sort_values(_)
sort_values(rows) ==
    IF rows = <<>> THEN <<>>
    ELSE LET m == CHOOSE k \in 1..Len(rows) :
                    /\ \A j \in 1..Len(rows) : rows[k].timestamp <= rows[j].timestamp
                    /\ \A j \in 1..(k - 1) : rows[j].timestamp # rows[k].timestamp
         IN <<rows[m]>> \o sort_values(SubSeq(rows, 1, m - 1) \o SubSeq(rows, m + 1, Len(rows)))

\* PrometheusDataFetcher.clean_data(df, return_labels, limit)
clean_data(f, labels, lim) ==
    LET filled == fillna(replace_inf(f.rows), lim)
        rows == IF \E k \in 1..Len(filled) : HasNaN(filled[k])
                THEN dropna(filled) ELSE filled
    IN IF rows = <<>> THEN Returns(NoFrame)
       ELSE IF HashCol \notin labels THEN Returns([f EXCEPT !.rows = rows])
       ELSE LET r == reset_index([f EXCEPT !.rows = rows])
                merged == left_only(r.rows)
            IN IF TimestampCol \notin r.columns \/ HashCol \notin r.columns
               THEN KeyError
               ELSE Returns(
                    [index |-> "timestamp",
                     columns |-> r.columns \ {TimestampCol, HashCol},
                     rows |-> sort_values(
                        [k \in 1..Len(merged) |->
                            [merged[k] EXCEPT !.label = 0, !.hash = ""]])])

\* ------------------------------------------------------------------ state
VARIABLES
    marker,         \* Redis: remaining TTL of each dedup marker, 0 = no key
    delivered,      \* datums handed to the runs so far
    pc,             \* where each run is
    inputs,         \* the ids of the datums each run has taken from its iterator
    datum,          \* _datum of the current iteration
    value,          \* value read by redis_client.get
    is_new,         \* result of _is_new_request
    min_train_size, \* retrain_config.min_train_size
    train_df,       \* len(train_df)
    calls,          \* collaborator calls made for the current datum
    responses,      \* the Responses under construction
    result,         \* what run gave its caller: None, "returned" or the exception
    trail           \* per marker key: the events of its current expiry window

\* Prometheus.query_range (connectors/prometheus.py), one call of it
VARIABLES
    qpc,            \* where the call is: "idle", "loop", "returned", "raised"
    query,          \* its arguments start, end, step
    temp_start,     \* temp_start
    results,        \* results: the series appended so far
    requests        \* the calls of query_range_limit made so far

\* PrometheusDataFetcher.clean_data, applied once and then to its own output
VARIABLES
    cpc,            \* "idle", "given", "once", "twice"
    df,             \* the frame passed in
    return_labels,  \* return_labels
    limit,          \* limit
    once,           \* clean_data(df, return_labels, limit)
    twice           \* clean_data of the frame that the first call returned

\* Train._is_new_request, called for one identity after another
VARIABLES
    identities,     \* the payloads it was called with
    store,          \* Redis: the marker keys that are set
    verdicts        \* what it returned for each

train_vars == <<marker, delivered, pc, inputs, datum, value, is_new,
                min_train_size, train_df, calls, responses, result, trail>>
page_vars  == <<qpc, query, temp_start, results, requests>>
clean_vars == <<cpc, df, return_labels, limit, once, twice>>
ident_vars == <<identities, store, verdicts>>
connector_vars == <<page_vars, clean_vars>>

vars == <<train_vars, page_vars, clean_vars, ident_vars>>

\* An expiry window of a key opens with an admission and lasts REQUEST_EXPIRY
\* seconds; age is the time since it opened.
NoWindow == [events |-> <<>>, age |-> 0]

Init ==
    /\ marker = [k \in MarkerKeys |-> 0]
    /\ delivered = 0
    /\ pc = [i \in Instances |-> "loop"]
    /\ inputs = [i \in Instances |-> <<>>]
    /\ datum = [i \in Instances |-> NoDatum]
    /\ value = [i \in Instances |-> FALSE]
    /\ is_new = [i \in Instances |-> FALSE]
    /\ min_train_size = [i \in Instances |-> 0]
    /\ train_df = [i \in Instances |-> 0]
    /\ calls = [i \in Instances |-> <<>>]
    /\ responses = [i \in Instances |-> <<>>]
    /\ result = [i \in Instances |-> None]
    /\ trail = [k \in MarkerKeys |-> NoWindow]
    /\ qpc = "idle"
    /\ query = NoQuery
    /\ temp_start = 0
    /\ results = <<>>
    /\ requests = <<>>
    /\ cpc = "idle"
    /\ df = NoFrame
    /\ return_labels = {}
    /\ limit = 12
    /\ once = NoOutcome
    /\ twice = NoOutcome
    /\ identities = <<>>
    /\ store = {}
    /\ verdicts = <<>>

\* ---------------------------------------------------------------- helpers
payload(i) == datum[i].value.payload
key(i) == r_key(payload(i))

\* Response.as_success(_datum.id)
as_success(id) == [id |-> id, success |-> TRUE]

\* The window of key k is over (or never opened).
Expired(k) == trail[k].events = <<>> \/ trail[k].age >= REQUEST_EXPIRY

\* The events es happen for key k.
Note(k, es) == [trail EXCEPT ![k].events = @ \o es]

\* An admission for key k: it opens a window unless one is still running.
NoteAdmit(k) ==
    IF Expired(k)
    THEN [trail EXCEPT ![k] = [events |-> <<"admit">>, age |-> 0]]
    ELSE Note(k, <<"admit">>)

\* The iteration is over: its local variables are dead until the next
\* iteration assigns them again.
EndIteration(i) ==
    /\ datum' = [datum EXCEPT ![i] = NoDatum]
    /\ value' = [value EXCEPT ![i] = FALSE]
    /\ is_new' = [is_new EXCEPT ![i] = FALSE]
    /\ min_train_size' = [min_train_size EXCEPT ![i] = 0]
    /\ train_df' = [train_df EXCEPT ![i] = 0]
    /\ calls' = [calls EXCEPT ![i] = <<>>]

\* responses.append(Response.as_success(_datum.id)); continue
Acknowledge(i, es) ==
    /\ responses' = [responses EXCEPT ![i] = Append(@, as_success(datum[i].id))]
    /\ pc' = [pc EXCEPT ![i] = "loop"]
    /\ trail' = Note(key(i), es \o <<"ack">>)
    /\ EndIteration(i)

\* An exception that nothing in run catches: run ends without a Responses.
Propagate(i, exception) ==
    /\ pc' = [pc EXCEPT ![i] = "raised"]
    /\ result' = [result EXCEPT ![i] = exception]
    /\ EndIteration(i)

\* ---------------------------------------------------------------- actions
\* for _datum in datums: payload = TrainerPayload(**orjson.loads(_datum.value))
NextDatum(i) ==
    /\ pc[i] = "loop"
    /\ delivered < MaxDatums
    /\ \E v \in DatumValues :
        LET d == [id |-> <<i, Len(inputs[i]) + 1>>, value |-> v] IN
        /\ inputs' = [inputs EXCEPT ![i] = Append(@, d.id)]
        /\ IF ~v.decodable
           THEN Propagate(i, "DecodeError")
           ELSE /\ datum' = [datum EXCEPT ![i] = d]
                /\ pc' = [pc EXCEPT ![i] = "get"]
                /\ UNCHANGED <<result, value, is_new, min_train_size, train_df, calls>>
    /\ delivered' = delivered + 1
    /\ UNCHANGED <<marker, responses, trail>>
    /\ UNCHANGED <<connector_vars, ident_vars>>

\* _is_new_request: value = redis_client.get(r_key)
RedisGet(i) ==
    /\ pc[i] = "get"
    /\ value' = [value EXCEPT ![i] = (marker[key(i)] > 0)]
    /\ pc' = [pc EXCEPT ![i] = "gate"]
    /\ trail' = IF marker[key(i)] > 0 THEN Note(key(i), <<"reject">>) ELSE trail
    /\ UNCHANGED <<marker, delivered, inputs, datum, is_new,
                   min_train_size, train_df, calls, responses, result>>
    /\ UNCHANGED <<connector_vars, ident_vars>>

\* A rejection that sets the marker again, with a fresh TTL.
GateReject_Refresh(i) ==
    /\ pc[i] = "gate"
    /\ value[i]
    /\ marker' = [marker EXCEPT ![key(i)] = REQUEST_EXPIRY]
    /\ Acknowledge(i, <<>>)
    /\ UNCHANGED <<delivered, inputs, result>>
    /\ UNCHANGED <<connector_vars, ident_vars>>

\* A rejection that run does not act on: the iteration goes on to fetch and train.
GateReject_Proceed(i) ==
    /\ pc[i] = "gate"
    /\ value[i]
    /\ pc' = [pc EXCEPT ![i] = "config"]
    /\ UNCHANGED <<marker, delivered, inputs, datum, value, is_new, min_train_size,
                   train_df, calls, responses, result, trail>>
    /\ UNCHANGED <<connector_vars, ident_vars>>

\* _is_new_request: if value: return False, and run's "if not is_new" branch
GateReject(i) ==
    /\ pc[i] = "gate"
    /\ value[i]
    /\ Acknowledge(i, <<>>)
    /\ UNCHANGED <<marker, delivered, inputs, result>>
    /\ UNCHANGED <<connector_vars, ident_vars>>

\* An admission that sets the marker with half the expiry time.
GateAdmit_ShortTTL(i) ==
    /\ pc[i] = "gate"
    /\ ~value[i]
    /\ marker' = [marker EXCEPT ![key(i)] = REQUEST_EXPIRY \div 2]
    /\ is_new' = [is_new EXCEPT ![i] = TRUE]
    /\ trail' = NoteAdmit(key(i))
    /\ pc' = [pc EXCEPT ![i] = "config"]
    /\ UNCHANGED <<delivered, inputs, datum, value, min_train_size,
                   train_df, calls, responses, result>>
    /\ UNCHANGED <<connector_vars, ident_vars>>

\* _is_new_request: redis_client.setex(r_key, time=REQUEST_EXPIRY, value=1); return True
GateAdmit(i) ==
    /\ pc[i] = "gate"
    /\ ~value[i]
    /\ marker' = [marker EXCEPT ![key(i)] = REQUEST_EXPIRY]
    /\ is_new' = [is_new EXCEPT ![i] = TRUE]
    /\ trail' = NoteAdmit(key(i))
    /\ pc' = [pc EXCEPT ![i] = "config"]
    /\ UNCHANGED <<delivered, inputs, datum, value, min_train_size,
                   train_df, calls, responses, result>>
    /\ UNCHANGED <<connector_vars, ident_vars>>

\* ConfigManager.get_metric_config(composite_keys[0], metric): the metric's
\* configuration, or nothing.
MetricConfigs ==
    {[found |-> TRUE, min_train_size |-> n] : n \in 0..MaxMinTrain}
        \cup {[found |-> FALSE, min_train_size |-> 0]}

\* metric_config = ConfigManager.get_metric_config(...);
\* retrain_config = metric_config.retrain_conf
GetMetricConfig(i) ==
    /\ pc[i] = "config"
    /\ \E c \in MetricConfigs :
        IF ~c.found
        THEN /\ Propagate(i, "ConfigAbsent")
             /\ trail' = Note(key(i), <<"config_absent">>)
        ELSE /\ min_train_size' = [min_train_size EXCEPT ![i] = c.min_train_size]
             /\ pc' = [pc EXCEPT ![i] = "fetch"]
             /\ UNCHANGED <<result, datum, value, is_new, train_df, calls, trail>>
    /\ UNCHANGED <<marker, delivered, inputs, responses>>
    /\ UNCHANGED <<connector_vars, ident_vars>>

\* A fetch whose failure deletes the request's marker, so that a retry is
\* admitted at once.
FetchData_ClearMarker(i) ==
    /\ pc[i] = "fetch"
    /\ \E env \in FetchEnvs :
        LET r == fetch_data(env) IN
        IF r.raised
        THEN /\ Acknowledge(i, <<"fetch", "fetch_error">>)
             /\ marker' = [marker EXCEPT ![key(i)] = 0]
        ELSE /\ train_df' = [train_df EXCEPT ![i] = r.rows]
             /\ calls' = [calls EXCEPT ![i] = Append(@, Call("fetch", "", "frame", r.rows, <<>>))]
             /\ trail' = Note(key(i), <<"fetch">>)
             /\ pc' = [pc EXCEPT ![i] = "size"]
             /\ UNCHANGED <<marker, responses, datum, value, is_new, min_train_size>>
    /\ UNCHANGED <<delivered, inputs, result>>
    /\ UNCHANGED <<connector_vars, ident_vars>>

\* try: train_df = self.fetch_data(payload) / except Exception: acknowledge
FetchData(i) ==
    /\ pc[i] = "fetch"
    /\ \E env \in FetchEnvs :
        LET r == fetch_data(env) IN
        IF r.raised
        THEN Acknowledge(i, <<"fetch", "fetch_error">>)
        ELSE /\ train_df' = [train_df EXCEPT ![i] = r.rows]
             /\ calls' = [calls EXCEPT ![i] = Append(@, Call("fetch", "", "frame", r.rows, <<>>))]
             /\ trail' = Note(key(i), <<"fetch">>)
             /\ pc' = [pc EXCEPT ![i] = "size"]
             /\ UNCHANGED <<responses, datum, value, is_new, min_train_size>>
    /\ UNCHANGED <<marker, delivered, inputs, result>>
    /\ UNCHANGED <<connector_vars, ident_vars>>

\* The size check, one row too lenient.
SizeCheck_OffByOne(i) ==
    /\ pc[i] = "size"
    /\ IF train_df[i] + 1 < min_train_size[i]
       THEN Acknowledge(i, <<"too_small">>)
       ELSE /\ pc' = [pc EXCEPT ![i] = "train"]
            /\ UNCHANGED <<responses, trail, datum, value, is_new, min_train_size,
                           train_df, calls>>
    /\ UNCHANGED <<marker, delivered, inputs, result>>
    /\ UNCHANGED <<connector_vars, ident_vars>>

\* if len(train_df) < retrain_config.min_train_size: acknowledge, continue
SizeCheck(i) ==
    /\ pc[i] = "size"
    /\ IF train_df[i] < min_train_size[i]
       THEN Acknowledge(i, <<"too_small">>)
       ELSE /\ pc' = [pc EXCEPT ![i] = "train"]
            /\ UNCHANGED <<responses, trail, datum, value, is_new, min_train_size,
                           train_df, calls>>
    /\ UNCHANGED <<marker, delivered, inputs, result>>
    /\ UNCHANGED <<connector_vars, ident_vars>>

\* The stage of the Training Pipeline that raises, or "ok".
PipelineOutcomes == {"ok", "_preprocess", "_train_model", "_find_threshold"}

\* _train_and_save up to skeys: _preprocess, _train_model, _find_threshold
TrainPipeline(i) ==
    /\ pc[i] = "train"
    /\ \E o \in PipelineOutcomes :
        IF o = "ok"
        THEN /\ calls' = [calls EXCEPT ![i] = Append(@, Call("pipeline", "", o, train_df[i], <<>>))]
             /\ trail' = Note(key(i), <<"pipeline">>)
             /\ pc' = [pc EXCEPT ![i] = "save"]
             /\ UNCHANGED <<result, datum, value, is_new, min_train_size, train_df>>
        ELSE /\ Propagate(i, "PipelineError")
             /\ trail' = Note(key(i), <<"pipeline", "pipeline_error">>)
    /\ UNCHANGED <<marker, delivered, inputs, responses>>
    /\ UNCHANGED <<connector_vars, ident_vars>>

\* What model_registry.save does: it returns a version, or raises
\* RedisRegistryError.
SaveOutcomes == {"ok", "RedisRegistryError"}

\* The saves made so far for the current datum.
Saves(i) == SelectSeq(calls[i], LAMBDA c : c.op = "save")

\* A save sequence that gives up at the first save that raises.
SaveArtifact_Abort(i) ==
    /\ pc[i] = "save"
    /\ LET role == Roles[Len(Saves(i)) + 1] IN
       \E o \in SaveOutcomes :
        /\ calls' = [calls EXCEPT ![i] = Append(@,
                Call("save", role, o, train_df[i], skeys(payload(i))))]
        /\ pc' = [pc EXCEPT ![i] =
                IF role = Roles[Len(Roles)] \/ o # "ok" THEN "ack" ELSE "save"]
    /\ trail' = Note(key(i), <<"save">>)
    /\ UNCHANGED <<marker, delivered, inputs, datum, value, is_new,
                   min_train_size, train_df, responses, result>>
    /\ UNCHANGED <<connector_vars, ident_vars>>

\* One try: model_registry.save(skeys=skeys, dkeys=...) / except RedisRegistryError
SaveArtifact(i) ==
    /\ pc[i] = "save"
    /\ LET role == Roles[Len(Saves(i)) + 1] IN
       \E o \in SaveOutcomes :
        /\ calls' = [calls EXCEPT ![i] = Append(@,
                Call("save", role, o, train_df[i], skeys(payload(i))))]
        /\ pc' = [pc EXCEPT ![i] = IF role = Roles[Len(Roles)] THEN "ack" ELSE "save"]
    /\ trail' = Note(key(i), <<"save">>)
    /\ UNCHANGED <<marker, delivered, inputs, datum, value, is_new,
                   min_train_size, train_df, responses, result>>
    /\ UNCHANGED <<connector_vars, ident_vars>>

\* responses.append(Response.as_success(_datum.id)) after _train_and_save
Ack(i) ==
    /\ pc[i] = "ack"
    /\ Acknowledge(i, <<>>)
    /\ UNCHANGED <<marker, delivered, inputs, result>>
    /\ UNCHANGED <<connector_vars, ident_vars>>

\* return responses, when the iterator has no more datums
Return(i) ==
    /\ pc[i] = "loop"
    /\ delivered = MaxDatums
    /\ pc' = [pc EXCEPT ![i] = "returned"]
    /\ result' = [result EXCEPT ![i] = "returned"]
    /\ UNCHANGED <<marker, delivered, inputs, datum, value, is_new,
                   min_train_size, train_df, calls, responses, trail>>
    /\ UNCHANGED <<connector_vars, ident_vars>>

\* TickSecs seconds pass: every marker's TTL runs down, a marker whose TTL
\* is used up is gone, and every open window grows older.
Tick ==
    /\ \E k \in MarkerKeys : marker[k] > 0 \/ ~Expired(k)
    /\ marker' = [k \in MarkerKeys |->
                    IF marker[k] > TickSecs THEN marker[k] - TickSecs ELSE 0]
    /\ trail' = [k \in MarkerKeys |->
                    IF Expired(k) THEN trail[k]
                    ELSE [trail[k] EXCEPT !.age =
                            IF @ + TickSecs < REQUEST_EXPIRY THEN @ + TickSecs
                            ELSE REQUEST_EXPIRY]]
    /\ UNCHANGED <<delivered, pc, inputs, datum, value, is_new,
                   min_train_size, train_df, calls, responses, result>>
    /\ UNCHANGED <<connector_vars, ident_vars>>

\* Between two datums, or done: the run holds no request.
Idle(i) == pc[i] \in {"loop", "returned", "raised"}

\* Inside _is_new_request: between the for header and the gate's verdict.
InGate(i) == pc[i] \in {"get", "gate"}

\* Requests processed one after another: a run takes its next datum only
\* while no other run is in the middle of a request.
OneAtATime(i) == \A j \in Instances \ {i} : Idle(j)

Next ==
    \/ \E i \in Instances :
        \/ OneAtATime(i) /\ NextDatum(i)
        \/ RedisGet(i)
        \/ GateReject(i)
        \/ GateAdmit(i)
        \/ GetMetricConfig(i)
        \/ FetchData(i)
        \/ SizeCheck(i)
        \/ TrainPipeline(i)
        \/ SaveArtifact(i)
        \/ Ack(i)
        \/ Return(i)
    \/ Tick

Spec == Init /\ [][Next]_vars

\* Past the gate and the configuration lookup: fetching, training or saving.
Working(i) == pc[i] \in {"fetch", "size", "train", "save", "ack"}

\* Orchestrator processes that run concurrently: their calls of
\* _is_new_request interleave command by command.  What a run does after the
\* gate's verdict reads nothing another run writes, so it is scheduled one run
\* at a time: a run takes its next datum while the others are between datums
\* or inside _is_new_request, and works on its request while no other does.
Overlap(i) == \A j \in Instances \ {i} : Idle(j) \/ InGate(j)
Alone(i)   == \A j \in Instances \ {i} : ~Working(j)

NextRace ==
    \/ \E i \in Instances :
        \/ Overlap(i) /\ NextDatum(i)
        \/ RedisGet(i)
        \/ GateReject(i)
        \/ GateAdmit(i)
        \/ Alone(i) /\ GetMetricConfig(i)
        \/ Alone(i) /\ FetchData(i)
        \/ Alone(i) /\ SizeCheck(i)
        \/ Alone(i) /\ TrainPipeline(i)
        \/ Alone(i) /\ SaveArtifact(i)
        \/ Alone(i) /\ Ack(i)
        \/ Return(i)
    \/ Tick

SpecRace == Init /\ [][NextRace]_vars

\* ------------------------------------------------ Prometheus.query_range
\* query_range(query, start, end, step): results = []; temp_start = start
QueryRange ==
    /\ qpc = "idle"
    /\ \E q \in Queries :
        /\ query' = q
        /\ temp_start' = q.start
    /\ results' = <<>>
    /\ requests' = <<>>
    /\ qpc' = "loop"
    /\ UNCHANGED <<train_vars, clean_vars, ident_vars>>

\* while data_points > 11000: one call for the next 11000 * step seconds;
\* "for res in response" raises TypeError when response is not a list
WhileChunk ==
    /\ qpc = "loop"
    /\ data_points_gt(temp_start, query.end, query.step, max_points)
    /\ LET temp_end == temp_start + max_points * query.step IN
       \E b \in BackendOutcomes :
        LET response == query_range_limit(temp_start, temp_end, query.step, b) IN
        /\ requests' = Append(requests,
                Request(temp_start, temp_end, query.step, response.outcome))
        /\ IF response.is_list
           THEN /\ results' = results \o response.results
                /\ temp_start' = temp_end
                /\ qpc' = qpc
           ELSE /\ qpc' = "raised"
                /\ UNCHANGED <<results, temp_start>>
    /\ UNCHANGED <<query, train_vars, clean_vars, ident_vars>>

\* if data_points > 0: query_range_limit(query, temp_start, end), which
\* leaves step to its default; return results
FinalCall ==
    /\ qpc = "loop"
    /\ ~data_points_gt(temp_start, query.end, query.step, max_points)
    /\ IF data_points_gt(temp_start, query.end, query.step, 0)
       THEN \E b \in BackendOutcomes :
            LET response == query_range_limit(temp_start, query.end, default_step, b) IN
            /\ requests' = Append(requests,
                    Request(temp_start, query.end, default_step, response.outcome))
            /\ IF response.is_list
               THEN /\ results' = results \o response.results
                    /\ qpc' = "returned"
               ELSE /\ qpc' = "raised"
                    /\ UNCHANGED results
       ELSE /\ qpc' = "returned"
            /\ UNCHANGED <<results, requests>>
    /\ UNCHANGED <<query, temp_start, train_vars, clean_vars, ident_vars>>

NextPage == QueryRange \/ WhileChunk \/ FinalCall

SpecPage == Init /\ [][NextPage]_vars

\* ------------------------------------ PrometheusDataFetcher.clean_data
\* The columns of a frame, the label columns asked for and the fill limit.
GivenFrame ==
    /\ cpc = "idle"
    /\ \E cols \in FrameColumns : df' = [NoFrame EXCEPT !.columns = cols]
    /\ return_labels' \in LabelLists
    /\ limit' \in Limits
    /\ cpc' = "given"
    /\ UNCHANGED <<once, twice, train_vars, page_vars, ident_vars>>

\* One more row of the frame, not before the rows it has.
FrameRow ==
    /\ cpc = "given"
    /\ df.columns # {}
    /\ Len(df.rows) < MaxFrameRows
    /\ \E t \in Times, v \in Cells,
          h \in IF HashCol \in df.columns THEN Revisions ELSE {""} :
        /\ df.rows # <<>> => df.rows[Len(df.rows)].timestamp <= t
        /\ df' = [df EXCEPT !.rows = Append(@, Row(Len(@), t, v, h, 0))]
    /\ UNCHANGED <<cpc, return_labels, limit, once, twice,
                   train_vars, page_vars, ident_vars>>

\* clean_data(df, return_labels, limit); its first statement replaces the
\* infinities in the caller's frame.
CleanOnce ==
    /\ cpc = "given"
    /\ once' = clean_data(df, return_labels, limit)
    /\ df' = [df EXCEPT !.rows = replace_inf(@)]
    /\ cpc' = "once"
    /\ UNCHANGED <<return_labels, limit, twice, train_vars, page_vars, ident_vars>>

\* clean_data of the frame the first call returned, with the same
\* return_labels and limit
CleanTwice ==
    /\ cpc = "once"
    /\ ~once.raised
    /\ twice' = clean_data(once.frame, return_labels, limit)
    /\ cpc' = "twice"
    /\ UNCHANGED <<df, return_labels, limit, once, train_vars, page_vars, ident_vars>>

NextClean == GivenFrame \/ FrameRow \/ CleanOnce \/ CleanTwice

SpecClean == Init /\ [][NextClean]_vars

\* ------------------------------------------- Train._is_new_request
\* Request identities whose strings may hold the separator and whose key
\* lists differ in length.
KeyParts == {"a", "b", "a:b"}
Metrics == {"c", "b:c"}
Identities ==
    {[composite_keys |-> ck, metric |-> m] :
        ck \in UNION {[1..n -> KeyParts] : n \in 1..MaxKeys}, m \in Metrics}

\* _is_new_request(payload), one call after the other inside one expiry
\* window: get, and setex when the key is not there.
IsNewRequest(p) ==
    /\ Len(identities) < MaxRequests
    /\ LET present == r_key(p) \in store IN
       /\ verdicts' = Append(verdicts, ~present)
       /\ store' = IF present THEN store ELSE store \cup {r_key(p)}
    /\ identities' = Append(identities, p)
    /\ UNCHANGED <<train_vars, page_vars, clean_vars>>

NextIdent == \E p \in Identities : IsNewRequest(p)

SpecIdent == Init /\ [][NextIdent]_vars

\* ------------------------------------------------------------- properties
\* The admissions and rejections of key k's current window, in order.
Gate(t) == SelectSeq(t.events, LAMBDA e : e \in {"admit", "reject"})

\* How often event e happened in key k's current window.
Count(k, e) == Len(SelectSeq(trail[k].events, LAMBDA x : x = e))

\* No run is in the middle of a request for key k.
Settled(k) == \A i \in Instances : Idle(i) \/ key(i) # k

Last(seq) == seq[Len(seq)]

\* The roles that the calls cs made a save for.
SavedRoles(cs) == {cs[n].arg : n \in {m \in 1..Len(cs) : cs[m].op = "save"}}

\* The positive acknowledgement of the current datum is appended and the
\* loop goes on.
Acked(i) ==
    /\ pc'[i] = "loop"
    /\ responses'[i] = Append(responses[i], [id |-> datum[i].id, success |-> TRUE])
    /\ result'[i] = result[i]

\* C1: under every interleaving of runs that share the marker store, at most
\* one request per key is admitted within one expiry window.
C1_AtMostOneAdmissionPerWindow ==
    \A k \in MarkerKeys : Count(k, "admit") <= 1

\* C2: of the requests for one key processed one after another inside one
\* expiry window, the first is admitted and every other one is rejected, and
\* a rejected call leaves every marker and its remaining TTL as they were.
C2_FirstAdmittedOthersRejected ==
    [][ /\ \A k \in MarkerKeys :
            LET g == Gate(trail'[k]) IN
            g # <<>> => g[1] = "admit" /\ \A n \in 2..Len(g) : g[n] = "reject"
        /\ \A i \in Instances :
            /\ (pc[i] = "get" /\ pc'[i] = "gate" /\ value'[i]) => marker' = marker
            /\ (pc[i] = "gate" /\ value[i] /\ pc'[i] # "gate") =>
                    marker' = marker /\ Acked(i)
      ]_vars

\* C2 witness: a second request was rejected and acknowledged while the
\* marker's TTL had partly run down, and the TTL is still partly run down.
C2_Witness ==
    \E k \in MarkerKeys :
        /\ Gate(trail[k]) = <<"admit", "reject">>
        /\ Last(trail[k].events) = "ack"
        /\ Settled(k)
        /\ marker[k] > 0
        /\ marker[k] < REQUEST_EXPIRY

\* C3: a run over decodable messages whose configuration is found ends by
\* returning one positive acknowledgement per message, in input order, each
\* with its message's id: it never ends with an exception.
C3_OneSuccessPerMessage ==
    \A i \in Instances :
        result[i] \notin {None, "DecodeError", "ConfigAbsent"} =>
            /\ result[i] = "returned"
            /\ responses[i] = [n \in 1..Len(inputs[i]) |->
                                [id |-> inputs[i][n], success |-> TRUE]]

\* C4: when a stage of the Training Pipeline raises, no save has been made
\* for the request, and the request is positively acknowledged and the loop
\* goes on.
C4_PipelineFailureAbsorbed ==
    [][ \A i \in Instances :
            (pc[i] = "train" /\ pc'[i] \notin {"train", "save"}) =>
                Saves(i) = <<>> /\ Acked(i)
      ]_vars

C6_RepeatedRequestIsNoOp ==
    \A k \in MarkerKeys :
        (Count(k, "reject") >= 1 /\ Settled(k)) =>
            /\ Count(k, "admit") = 1
            /\ Count(k, "fetch") <= 1
            /\ Count(k, "pipeline") <= 1
            /\ Count(k, "save") \in {0, Len(Roles)}
            /\ Count(k, "save") = Len(Roles) =>
                    Count(k, "ack") = Len(Gate(trail[k]))

\* C6 witness: the same request twice in one window: three saves, two
\* acknowledgements.
C6_Witness ==
    \E k \in MarkerKeys :
        /\ Gate(trail[k]) = <<"admit", "reject">>
        /\ Settled(k)
        /\ Count(k, "save") = 3
        /\ Count(k, "ack") = 2

\* C7: the calls made for a request that reaches the acknowledgement after
\* training are the fetch, the pipeline and then exactly three saves, for
\* model, preprocess and threshold in this order, each with
\* skeys = composite_keys + [metric]; the save sequence ends in the
\* acknowledgement, which is positive and carries the message's id.
C7_ThreeSavesThenAck ==
    [][ \A i \in Instances :
            /\ pc'[i] = "ack" =>
                LET p == datum'[i].value.payload
                    sk == p.composite_keys \o <<p.metric>>
                IN [n \in 1..Len(calls'[i]) |->
                        <<calls'[i][n].op, calls'[i][n].arg, calls'[i][n].skeys>>]
                   = << <<"fetch", "", <<>>>>, <<"pipeline", "", <<>>>>,
                        <<"save", "model", sk>>, <<"save", "preprocess", sk>>,
                        <<"save", "threshold", sk>> >>
            /\ (pc[i] = "train" /\ pc'[i] = "save") => Saves(i) = <<>>
            /\ (pc[i] = "save" /\ pc'[i] # "save") => pc'[i] = "ack"
            /\ (pc[i] = "ack" /\ pc'[i] # "ack") => Acked(i)
      ]_vars

\* C7 witness: a request admitted, fetched, trained, saved three times and
\* acknowledged.
C7_Witness ==
    \E k \in MarkerKeys :
        trail[k].events =
            <<"admit", "fetch", "pipeline", "save", "save", "save", "ack">>

\* C8: a frame with fewer rows than min_train_size ends the iteration at the
\* size check with a positive acknowledgement; the pipeline and the saves are
\* only ever reached through the size check, with at least min_train_size rows.
C8_SmallFrameNeverTrained ==
    [][ \A i \in Instances :
            /\ (pc[i] = "size" /\ pc'[i] # "size" /\ train_df[i] < min_train_size[i]) =>
                    Saves(i) = <<>> /\ Acked(i)
            /\ pc'[i] \in {"train", "save", "ack"} =>
                /\ train_df'[i] >= min_train_size'[i]
                /\ pc[i] \in {"size", "train", "save", "ack"}
      ]_vars

\* C8 witness: a request admitted and fetched, found too small, and
\* acknowledged without pipeline or save.
C8_Witness ==
    \E k \in MarkerKeys :
        trail[k].events = <<"admit", "fetch", "too_small", "ack">>

\* C9: the Training Pipeline is never entered with an empty frame, whatever
\* min_train_size is.
C9_EmptyFrameNeverTrained ==
    \A i \in Instances : pc[i] \in {"train", "save", "ack"} => train_df[i] > 0

\* C10: when the lookup of the metric's configuration finds nothing, the
\* request is positively acknowledged and the batch goes on.
C10_ConfigAbsentAbsorbed ==
    [][ \A i \in Instances :
            (pc[i] = "config" /\ pc'[i] \notin {"config", "fetch"}) =>
                calls[i] = <<>> /\ Acked(i)
      ]_vars

\* The sample timestamps of the range of query q: start, start + step, ...
\* up to end.
SampleTimes(q) ==
    {q.start + k * q.step : k \in 0..((q.end - q.start) \div q.step)}

\* Series sr holds a sample at timestamp t.
Has(sr, t) == sr.start <= t /\ t <= sr.end /\ (t - sr.start) % sr.step = 0

\* How many of the returned series hold a sample at timestamp t.
Occurrences(t) == Cardinality({n \in 1..Len(results) : Has(results[n], t)})

\* Every call that query_range made got the backend's answer.
AllAnswered == \A n \in 1..Len(requests) : requests[n].outcome = "ok"

\* C11: when every backend call answers, query_range returns series that
\* together hold every sample timestamp of the range exactly once, and a
\* range of max_points + 1 points (points = (end - start) / step) takes
\* exactly two calls.  Stated for the ranges with start < end queried at
\* the default step, where every call is made with the caller's step.
C11_StitchedWithoutGapOrOverlap ==
    (/\ qpc = "returned"
     /\ AllAnswered
     /\ query.start < query.end
     /\ query.step = default_step) =>
        /\ \A t \in SampleTimes(query) : Occurrences(t) = 1
        /\ (query.end - query.start = (max_points + 1) * query.step) =>
                Len(requests) = 2

\* Timestamp t is in the frame df under two rollout-identity revisions.
UnderBothRevisions(t) ==
    \E j, k \in 1..Len(df.rows) :
        /\ df.rows[j].timestamp = t
        /\ df.rows[k].timestamp = t
        /\ df.rows[j].hash # df.rows[k].hash

\* Timestamp t is in the frame df exactly once.
OccursOnce(t) == Cardinality({k \in 1..Len(df.rows) : df.rows[k].timestamp = t}) = 1

\* C12: cleaning a frame that has the rollout-identity column, asked for as
\* a label column, and two revisions sharing a timestamp: the call returns;
\* the output has no row at a timestamp that the frame holds under both
\* revisions; it keeps the rows with a value whose timestamp occurs once; it
\* is sorted ascending by timestamp and has no rollout-identity column.
C12_SharedTimestampsRemoved ==
    (/\ cpc = "once"
     /\ HashCol \in df.columns
     /\ HashCol \in return_labels
     /\ \E t \in Times : UnderBothRevisions(t)) =>
        LET out == once.frame.rows IN
        /\ ~once.raised
        /\ \A t \in Times : UnderBothRevisions(t) =>
                \A k \in 1..Len(out) : out[k].timestamp # t
        /\ \A k \in 1..Len(df.rows) :
                (OccursOnce(df.rows[k].timestamp) /\ df.rows[k].value # NaN) =>
                    \E j \in 1..Len(out) :
                        /\ out[j].timestamp = df.rows[k].timestamp
                        /\ out[j].value = df.rows[k].value
        /\ \A k \in 1..(Len(out) - 1) : out[k].timestamp <= out[k + 1].timestamp
        /\ HashCol \notin once.frame.columns

\* C13: clean_data applied to the frame that clean_data returned, with the
\* same return_labels and limit, returns, and returns an equal frame.
C13_CleaningIdempotent ==
    cpc = "twice" => ~twice.raised /\ twice.frame = once.frame

\* C14: no failure while processing a request ends the run: the run never
\* ends with an exception, and when it returns it returns one
\* acknowledgement for every datum it took from the batch.
C14_FailureNeverEndsTheBatch ==
    \A i \in Instances :
        /\ pc[i] # "raised"
        /\ pc[i] = "returned" => Len(responses[i]) = Len(inputs[i])

\* C15: the marker is set at the admission, before anything is fetched;
\* after that only the passing of time lowers its TTL, no step of a run
\* does; so the marker is there as long as the window is open, whatever
\* happened to the admitted request, and a request that reads it inside the
\* window is rejected.
C15_MarkerOutlivesTheOutcome ==
    [][ /\ \A i \in Instances :
            /\ (pc[i] = "gate" /\ pc'[i] = "config") =>
                    marker'[key(i)] = REQUEST_EXPIRY /\ calls[i] = <<>>
            /\ (pc[i] = "get" /\ pc'[i] = "gate" /\ ~Expired(key(i))) => value'[i]
        /\ \A k \in MarkerKeys :
            /\ marker'[k] < marker[k] => pc' = pc /\ responses' = responses
            /\ ~(Expired(k))' => marker'[k] > 0
      ]_vars

\* C15 witness: a request was admitted and its fetch raised; the next
\* request for the key, inside the window, was rejected and acknowledged.
C15_Witness ==
    \E k \in MarkerKeys :
        trail[k].events = <<"admit", "fetch", "fetch_error", "ack", "reject", "ack">>

\* C16: every call that query_range makes of query_range_limit is made with
\* the caller's step and spans at most max_points points at that step, none
\* is refused by query_range_limit's own check of the cap, and a range with
\* start < end has been asked for up to its end when query_range returns.
C16_EveryCallWithinTheCap ==
    /\ \A n \in 1..Len(requests) :
        /\ requests[n].step = query.step
        /\ ~data_points_gt(requests[n].start, requests[n].end, query.step, max_points)
        /\ requests[n].outcome # "rejected"
    /\ (qpc = "returned" /\ query.start < query.end) =>
        /\ requests # <<>>
        /\ Last(requests).end = query.end

\* C17: a backend call that fails (network error, malformed payload) adds
\* nothing to the results and ends nothing, and no error leaves
\* query_range: the chunks asked for are the same as if it had answered,
\* chunk n starting max_points * step after chunk n - 1 and the last one
\* ending at end; and the results are the answers of the calls that were
\* answered, in the order of the calls.
C17_FailedChunkIsEmpty ==
    [][ /\ (Len(requests') = Len(requests) + 1
                /\ Last(requests').outcome \in {"error", "null"}) =>
            /\ results' = results
            /\ qpc' = IF data_points_gt(temp_start, query.end, query.step, max_points)
                      THEN "loop" ELSE "returned"
        /\ qpc' # "raised"
        /\ \A n \in 1..Len(requests') :
            LET from == query'.start + (n - 1) * max_points * query'.step
                upto == from + max_points * query'.step
            IN /\ requests'[n].start = from
               /\ requests'[n].end = IF upto < query'.end THEN upto ELSE query'.end
        /\ (qpc' = "returned" /\ query'.start < query'.end) =>
                Last(requests').end = query'.end
        /\ LET answered == SelectSeq(requests', LAMBDA r : r.outcome = "ok") IN
           results' = [n \in 1..Len(answered) |->
                        Series(answered[n].start, answered[n].end, answered[n].step)]
      ]_vars

\* C18: two requests with different (composite_keys, metric) never have the
\* same marker key, and a request is rejected only when a request of its
\* own identity was admitted before it.
C18_MarkerKeyInjective ==
    /\ \A m, n \in 1..Len(identities) :
        identities[m] # identities[n] => r_key(identities[m]) # r_key(identities[n])
    /\ \A n \in 1..Len(identities) :
        ~verdicts[n] => \E m \in 1..(n - 1) :
                            verdicts[m] /\ identities[m] = identities[n]

\* C19: a marker goes away only when the time of its window is up; while a
\* window is known the marker's TTL is what is left of REQUEST_EXPIRY, so it
\* runs down as time passes and no rejection refreshes it; a request that
\* reads the marker after the window is not rejected: it is admitted and
\* sets the marker with the full REQUEST_EXPIRY, opening a new window.
C19_SuppressionEndsWithTheWindow ==
    [][ /\ \A k \in MarkerKeys :
            /\ (marker[k] > 0 /\ marker'[k] = 0) =>
                    (Expired(k))' /\ pc' = pc
            /\ trail'[k].events # <<>> =>
                    marker'[k] = REQUEST_EXPIRY - trail'[k].age
        /\ \A i \in Instances :
            /\ (pc[i] = "get" /\ pc'[i] = "gate" /\ Expired(key(i))) => ~value'[i]
            /\ (pc[i] = "gate" /\ ~value[i] /\ pc'[i] # "gate") =>
                    /\ pc'[i] = "config"
                    /\ is_new'[i]
                    /\ marker'[key(i)] = REQUEST_EXPIRY
                    /\ trail'[key(i)] = [events |-> <<"admit">>, age |-> 0]
      ]_vars

\* C19 witness: both datums were requests for one key; the first was
\* admitted and its window ran out, the second was admitted again and the
\* marker has its full TTL.
C19_Witness ==
    \E k \in MarkerKeys :
        /\ delivered = 2
        /\ \A i \in Instances : result[i] # "DecodeError"
        /\ \A j \in MarkerKeys \ {k} : trail[j] = NoWindow
        /\ trail[k] = [events |-> <<"admit">>, age |-> 0]
        /\ marker[k] = REQUEST_EXPIRY
        /\ \E i \in Instances : pc[i] = "config" /\ key(i) = k

====
